---- MODULE Spec2Model ----
(***************************************************************************)
(* Model of sentry/api/endpoints/project_dynamic_sampling.py:              *)
(*   percentile_fn, _get_sample_rates_data and                             *)
(*   ProjectDynamicSamplingDistributionEndpoint.get.                       *)
(*                                                                         *)
(* Python values are tagged records so that values of different Python     *)
(* types can be told apart: None, str, float, list, dict and a raised      *)
(* exception.  Numbers are integers: a client sample rate r is the integer *)
(* r * 10^5, the values given to the pure functions are plain integers.    *)
(* len(data) * percentile is a float product in the code; for the          *)
(* percentiles used here and every len up to 1000 (the cap on sampleSize)  *)
(* the float product is whole exactly when the rational product is, and    *)
(* its ceiling is the rational ceiling, so the index is computed with      *)
(* integer arithmetic on percentile * 100.                                 *)
(***************************************************************************)
EXTENDS Integers, Sequences, FiniteSets, TLC

VARIABLES
    pc,                     \* position of the invocation
    feature_enabled,        \* features.has("organizations:filters-and-sampling", ...)
    distributed_trace,      \* request.GET.get("distributedTrace", "1") == "1"
    root_transactions,      \* rows of the sample query
    sample_size,
    sample_rates,
    non_null_sample_rates,
    project_breakdown,
    queries,                \* calls made to discover.query, in order
    response,               \* the Response returned, or the exception raised
    data,                   \* argument of a direct call of a pure function
    percentile,             \* argument of a direct call of percentile_fn, times 100
    result                  \* what the direct call returned

vars == <<pc, feature_enabled, distributed_trace, root_transactions, sample_size,
          sample_rates, non_null_sample_rates, project_breakdown, queries,
          response, data, percentile, result>>

reqVars == <<feature_enabled, distributed_trace, root_transactions, sample_size,
             sample_rates, non_null_sample_rates, project_breakdown, queries,
             response>>

fnVars == <<data, percentile, result>>

----------------------------------------------------------------------------
(* Bounds of the model *)

\* most rows the sample query returns
MaxRows == 3

\* longest list handed directly to a pure function
MaxLen == 4

(* Program constants *)

\* limit=20 of the breakdown query
BreakdownQueryLimit == 20

\* len(project_breakdown) > 10
MaxBreakdownProjects == 10

----------------------------------------------------------------------------
(* Python values *)

None == [kind |-> "none"]

Str(s) == [kind |-> "str", text |-> s]

Float(n) == [kind |-> "float", val |-> n]

List(s) == [kind |-> "list", items |-> s]

Raised(e) == [kind |-> "raised", exception |-> e]

\* n / d, kept as the exact fraction
Ratio(n, d) == [kind |-> "float", num |-> n, den |-> d]

\* the texts a client sample rate arrives as; "" is the empty marker
RateTexts == {"", "0.5", "1e-05"}

\* position of a text in Python's str order (code points: "" < "0.5" < "1e-05")
StrRank(s) == CASE s = "" -> 0 [] s = "0.5" -> 1 [] s = "1e-05" -> 2

\* float(text), in units of 10^-5
FloatOfText(s) == CASE s = "0.5" -> 50000 [] s = "1e-05" -> 1

\* the values transaction.get("trace.client_sample_rate") can have
RateValues == {None} \cup {Str(s) : s \in RateTexts} \cup {Float(25000)}

TraceIds == {"t1", "t2"}

\* a < b raises TypeError unless both are str or both are float
Comparable(a, b) == a.kind = b.kind /\ a.kind \in {"str", "float"}

PyLess(a, b) == IF a.kind = "str" THEN StrRank(a.text) < StrRank(b.text)
                ELSE a.val < b.val

RECURSIVE InsertValue(_, _)
InsertValue(x, s) ==
    IF s = <<>> THEN <<x>>
    ELSE IF PyLess(x, Head(s)) THEN <<x>> \o s
    ELSE <<Head(s)>> \o InsertValue(x, Tail(s))

RECURSIVE SortValues(_)
SortValues(s) ==
    IF s = <<>> THEN <<>>
    ELSE InsertValue(s[Len(s)], SortValues(SubSeq(s, 1, Len(s) - 1)))

\* a mutant of sorted: the list is returned as it came
sorted_unsorted(s) == List(s)

\* sorted(s) over Python values: a comparison sort compares every element with
\* a neighbour of the result, so it raises as soon as two elements of a list of
\* two or more cannot be compared
sorted(s) ==
    IF \E i, j \in 1..Len(s) : i # j /\ ~Comparable(s[i], s[j])
    THEN Raised("TypeError")
    ELSE List(SortValues(s))

\* the integers of a list of floats
Vals(s) == [i \in 1..Len(s) |-> s[i].val]

RECURSIVE SeqSum(_)
SeqSum(s) == IF s = <<>> THEN 0 ELSE Head(s) + SeqSum(Tail(s))

SeqMin(s) == CHOOSE x \in {s[i] : i \in 1..Len(s)} : \A i \in 1..Len(s) : x <= s[i]

SeqMax(s) == CHOOSE x \in {s[i] : i \in 1..Len(s)} : \A i \in 1..Len(s) : x >= s[i]

IsSorted(s) == \A i \in 1..Len(s) - 1 : s[i] <= s[i + 1]

\* data[i] with Python's indexing: 0-based, negative from the end
PyIndex(s, i) ==
    IF i >= 0 /\ i < Len(s) THEN Float(s[i + 1])
    ELSE IF i < 0 /\ i >= -Len(s) THEN Float(s[Len(s) + i + 1])
    ELSE Raised("IndexError")

----------------------------------------------------------------------------
(* percentile_fn *)

\* a mutant of PercentileIndex: the rank rule ceil(idx) - 1 in both cases
PercentileIndex_ceil(n, p) == (n * p + 99) \div 100 - 1

\* a mutant of PercentileIndex: one past the rank in the fractional case
PercentileIndex_over(n, p) ==
    IF (n * p) % 100 = 0 THEN (n * p) \div 100 ELSE (n * p + 99) \div 100

\* the 0-based position percentile_fn reads, for len(data) = n and percentile p / 100
PercentileIndex(n, p) ==
    IF (n * p) % 100 = 0
    THEN (n * p) \div 100
    ELSE (n * p + 99) \div 100 - 1

percentile_fn(s, p) ==
    IF Len(s) = 0 THEN None
    ELSE PyIndex(s, PercentileIndex(Len(s), p))

----------------------------------------------------------------------------
(* _get_sample_rates_data *)

\* a mutant of DistMin: the first element, as if the list were always sorted
DistMin_first(s) == IF s = <<>> THEN None ELSE Float(s[1])

\* min(lst, default=None)
DistMin(s) == IF s = <<>> THEN None ELSE Float(SeqMin(s))

\* max(lst, default=None)
DistMax(s) == IF s = <<>> THEN None ELSE Float(SeqMax(s))

\* sum(lst) / len(lst) if len(lst) > 0 else None
DistMean(s) == IF Len(s) > 0 THEN Ratio(SeqSum(s), Len(s)) ELSE None

\* the dictionary built by the comprehension; an exception raised by one of
\* the functions leaves the comprehension
_get_sample_rates_data(s) ==
    LET p50 == percentile_fn(s, 50)
        p90 == percentile_fn(s, 90)
        p95 == percentile_fn(s, 95)
        p99 == percentile_fn(s, 99)
    IN  IF \E r \in {p50, p90, p95, p99} : r.kind = "raised"
        THEN Raised("IndexError")
        ELSE [kind |-> "dict", min |-> DistMin(s), max |-> DistMax(s),
              mean |-> DistMean(s), p50 |-> p50, p90 |-> p90, p95 |-> p95,
              p99 |-> p99]

----------------------------------------------------------------------------
(* ProjectDynamicSamplingDistributionEndpoint.get *)

Response(d, s) == [status |-> s, data |-> d]

\* an exception that leaves get
Raise(e) == [status |-> 500, data |-> [exception |-> e.exception]]

FeatureDisabledResponse ==
    Response([detail |-> "Dynamic sampling feature flag needs to be enabled"], 404)

SampleQuery ==
    [referrer |-> "dynamic-sampling.distribution.fetch-parent-transactions",
     trace |-> <<>>]

BreakdownQuery(trace_id_list) ==
    [referrer |-> "dynamic-sampling.distribution.fetch-project-breakdown",
     trace |-> trace_id_list]

\* the rows the sample query can return
Rows == [id : {"e"}, trace : TraceIds, rate : RateValues]

SampleResults == UNION {[1..n -> Rows] : n \in 0..MaxRows}

\* the rows the breakdown query can return: one per project, at most the limit
BreakdownRows(n) == [i \in 1..n |-> [project |-> i, count |-> 1]]

BreakdownResults == {BreakdownRows(n) : n \in 0..BreakdownQueryLimit}

\* transaction.get("trace.client_sample_rate") for transaction in root_transactions
ClientSampleRates(rows) == [i \in 1..Len(rows) |-> rows[i].rate]

\* transaction.get("trace") for transaction in root_transactions
TraceIdList(rows) == [i \in 1..Len(rows) |-> rows[i].trace]

\* sample_rate in {"", None}
IsNullRate(r) == r = None \/ r = Str("")

\* float(sample_rate)
ToFloat(r) == IF r.kind = "str" THEN Float(FloatOfText(r.text)) ELSE Float(r.val)

RECURSIVE NonNullFloats(_)
NonNullFloats(s) ==
    IF s = <<>> THEN <<>>
    ELSE IF IsNullRate(Head(s)) THEN NonNullFloats(Tail(s))
    ELSE <<ToFloat(Head(s))>> \o NonNullFloats(Tail(s))

\* sorted(float(sample_rate) for sample_rate in sample_rates
\*        if sample_rate not in {"", None}), as plain numbers
NonNullSampleRates(rates) == Vals(sorted(NonNullFloats(rates)).items)

\* a mutant of NullSampleRatePercentage: the share of the rates that are present
NullSampleRatePercentage_present(size, nonnull) == Ratio(Len(nonnull) * 100, size)

\* (sample_size - len(non_null_sample_rates)) / sample_size * 100
NullSampleRatePercentage(size, nonnull) == Ratio((size - Len(nonnull)) * 100, size)

\* a mutant of EmptySampleResponse: the summary of no rates instead of None
EmptySampleResponse_summary(size) ==
    Response([project_breakdown |-> None, sample_size |-> size,
              null_sample_rate_percentage |-> None,
              sample_rate_distributions |-> _get_sample_rates_data(<<>>)], 200)

\* the response to an empty sample
EmptySampleResponse(size) ==
    Response([project_breakdown |-> None, sample_size |-> size,
              null_sample_rate_percentage |-> None,
              sample_rate_distributions |-> None], 200)

\* a mutant of TooManyProjects: ten projects are already too many
TooManyProjects_ten(breakdown) == Len(breakdown) >= MaxBreakdownProjects

\* len(project_breakdown) > 10
TooManyProjects(breakdown) == Len(breakdown) > MaxBreakdownProjects

\* a mutant of TooManyProjectsResponse: the error carries the sample's size
TooManyProjectsResponse_partial(size) ==
    Response([details |-> "Way too many projects in the distributed trace's project breakdown",
              sample_size |-> size], 400)

TooManyProjectsResponse(size) ==
    Response([details |-> "Way too many projects in the distributed trace's project breakdown"],
             400)

\* the final Response; an exception raised while its dictionary is built leaves get
ReportResponse(breakdown, size, nonnull) ==
    LET dist == _get_sample_rates_data(nonnull)
    IN  IF dist.kind = "raised" THEN Raise(dist)
        ELSE Response([project_breakdown |-> breakdown, sample_size |-> size,
                       null_sample_rate_percentage |->
                           NullSampleRatePercentage(size, nonnull),
                       sample_rate_distributions |-> dist], 200)

----------------------------------------------------------------------------
(* The invocation of get, cut at its two calls of discover.query *)

Init ==
    /\ pc = "start"
    /\ feature_enabled \in BOOLEAN
    /\ distributed_trace \in BOOLEAN
    /\ root_transactions = <<>>
    /\ sample_size = 0
    /\ sample_rates = <<>>
    /\ non_null_sample_rates = <<>>
    /\ project_breakdown = None
    /\ queries = <<>>
    /\ response = None
    /\ data = <<>>
    /\ percentile = 0
    /\ result = None

\* the feature check fails and get returns 404
FeatureDisabled ==
    /\ pc = "start"
    /\ ~feature_enabled
    /\ response' = FeatureDisabledResponse
    /\ pc' = "done"
    /\ UNCHANGED <<feature_enabled, distributed_trace, root_transactions, sample_size,
                   sample_rates, non_null_sample_rates, project_breakdown, queries>>
    /\ UNCHANGED fnVars

\* the feature check passes, the request is read and the sample query is made
FetchRootTransactions ==
    /\ pc = "start"
    /\ feature_enabled
    /\ queries' = Append(queries, SampleQuery)
    /\ pc' = "sample_query"
    /\ UNCHANGED <<feature_enabled, distributed_trace, root_transactions, sample_size,
                   sample_rates, non_null_sample_rates, project_breakdown, response>>
    /\ UNCHANGED fnVars

\* the sample query returns rows; get runs to its next call of discover.query
\* or to its return
SampleQueryReturns(rows) ==
    /\ pc = "sample_query"
    /\ root_transactions' = rows
    /\ sample_size' = Len(rows)
    /\ LET rates == sorted(ClientSampleRates(rows))
       IN  IF rates.kind = "raised"
           THEN /\ response' = Raise(rates)
                /\ pc' = "done"
                /\ UNCHANGED <<sample_rates, non_null_sample_rates, queries>>
           ELSE /\ sample_rates' = rates.items
                /\ IF Len(rates.items) = 0
                   THEN /\ response' = EmptySampleResponse(Len(rows))
                        /\ pc' = "done"
                        /\ UNCHANGED <<non_null_sample_rates, queries>>
                   ELSE /\ non_null_sample_rates' = NonNullSampleRates(rates.items)
                        /\ IF distributed_trace
                           THEN /\ queries' = Append(queries,
                                                     BreakdownQuery(TraceIdList(rows)))
                                /\ pc' = "breakdown_query"
                                /\ UNCHANGED response
                           ELSE /\ response' =
                                       ReportResponse(project_breakdown, Len(rows),
                                                      NonNullSampleRates(rates.items))
                                /\ pc' = "done"
                                /\ UNCHANGED queries
    /\ UNCHANGED <<feature_enabled, distributed_trace, project_breakdown>>
    /\ UNCHANGED fnVars

\* the breakdown query returns rows; get runs to its return
BreakdownQueryReturns(rows) ==
    /\ pc = "breakdown_query"
    /\ project_breakdown' = List(rows)
    /\ response' = IF TooManyProjects(rows)
                   THEN TooManyProjectsResponse(sample_size)
                   ELSE ReportResponse(List(rows), sample_size, non_null_sample_rates)
    /\ pc' = "done"
    /\ UNCHANGED <<feature_enabled, distributed_trace, root_transactions, sample_size,
                   sample_rates, non_null_sample_rates, queries>>
    /\ UNCHANGED fnVars

Next ==
    \/ FeatureDisabled
    \/ FetchRootTransactions
    \/ \E rows \in SampleResults : SampleQueryReturns(rows)
    \/ \E rows \in BreakdownResults : BreakdownQueryReturns(rows)

Spec == Init /\ [][Next]_vars

----------------------------------------------------------------------------
(* Direct calls of the two pure functions *)

\* the percentiles, times 100
Percentiles == {25, 50, 90, 95, 99, 100}

\* the four percentiles _get_sample_rates_data asks for
SummaryPercentiles == {50, 90, 95, 99}

FnValues == {10, 20, 30, 40}

FnData == UNION {[1..n -> FnValues] : n \in 0..MaxLen}

FnInit ==
    /\ pc = "call"
    /\ data \in FnData
    /\ percentile \in Percentiles
    /\ result = None
    /\ feature_enabled = TRUE
    /\ distributed_trace = TRUE
    /\ root_transactions = <<>>
    /\ sample_size = 0
    /\ sample_rates = <<>>
    /\ non_null_sample_rates = <<>>
    /\ project_breakdown = None
    /\ queries = <<>>
    /\ response = None

\* percentile_fn(data, percentile) on a sorted list, as its docstring asks
CallPercentileFn ==
    /\ pc = "call"
    /\ IsSorted(data)
    /\ result' = percentile_fn(data, percentile)
    /\ pc' = "percentile_fn"
    /\ UNCHANGED <<data, percentile>>
    /\ UNCHANGED reqVars

\* _get_sample_rates_data(data) on any list
CallGetSampleRatesData ==
    /\ pc = "call"
    /\ result' = _get_sample_rates_data(data)
    /\ pc' = "_get_sample_rates_data"
    /\ UNCHANGED <<data, percentile>>
    /\ UNCHANGED reqVars

FnNext ==
    \/ CallPercentileFn
    \/ CallGetSampleRatesData

FnSpec == FnInit /\ [][FnNext]_vars

----------------------------------------------------------------------------
(* Properties of get, under Spec *)

ReportFields == {"project_breakdown", "sample_size", "null_sample_rate_percentage",
                 "sample_rate_distributions"}

\* get has returned or raised after the feature check passed
Served == pc = "done" /\ feature_enabled

IsReport == response.status = 200 /\ DOMAIN response.data = ReportFields

IsEligibilityError == response.status = 400 /\ "details" \in DOMAIN response.data

BreakdownReturned == project_breakdown.kind = "list"

NullRows(rows) == {i \in 1..Len(rows) : rows[i].rate \in {None, Str("")}}

NumericRows(rows) == (1..Len(rows)) \ NullRows(rows)

\* the number a numeric rate stands for, in units of 10^-5
RateNumber(r) == IF r.kind = "str" THEN FloatOfText(r.text) ELSE r.val

PermutationsOf(s) ==
    {[i \in 1..Len(s) |-> s[f[i]]] : f \in Permutations(1..Len(s))}

\* C1: in distributed-trace mode with a non-empty sample, get ends in the
\* eligibility error exactly when the breakdown query returned more than 10
\* rows, and for 0 to 10 returned rows the report's project_breakdown is the
\* returned rows, none dropped.
C1_EligibilityErrorIffMoreThanTen ==
    (Served /\ distributed_trace /\ root_transactions # <<>>) =>
        /\ IsEligibilityError <=>
               (BreakdownReturned /\ Len(project_breakdown.items) > 10)
        /\ (BreakdownReturned /\ Len(project_breakdown.items) <= 10) =>
               /\ IsReport
               /\ response.data.project_breakdown = project_breakdown
               /\ Len(response.data.project_breakdown.items)
                      = Len(project_breakdown.items)

C1_Witness ==
    /\ Served /\ distributed_trace /\ root_transactions # <<>>
    /\ BreakdownReturned
    /\ Len(project_breakdown.items) = 10
    /\ IsReport
    /\ Len(response.data.project_breakdown.items) = 10

\* C2: when the sample query returns no rows, for both values of the
\* distributed-trace flag, get returns a successful report with sample_size 0
\* and the three other fields None.
C2_EmptySampleReport ==
    (Served /\ root_transactions = <<>>) =>
        /\ IsReport
        /\ response.data.sample_size = 0
        /\ response.data.null_sample_rate_percentage = None
        /\ response.data.sample_rate_distributions = None
        /\ response.data.project_breakdown = None

C2_Witness ==
    /\ Served /\ root_transactions = <<>> /\ distributed_trace
    /\ Len(queries) = 1
    /\ response.status = 200
    /\ response.data.sample_size = 0

\* C3: when the breakdown has more than 10 projects the response is a 400
\* that carries none of the report's fields, although the sample was fetched
\* and is not empty.
C3_EligibilityErrorCarriesNoReport ==
    (pc = "done" /\ BreakdownReturned /\ Len(project_breakdown.items) > 10) =>
        /\ response.status = 400
        /\ DOMAIN response.data \cap ReportFields = {}
        /\ root_transactions # <<>>
        /\ sample_size > 0

C3_Witness ==
    /\ pc = "done" /\ BreakdownReturned
    /\ Len(project_breakdown.items) = 11
    /\ response.status = 400
    /\ sample_size > 0

\* C4: in every report, null_sample_rate_percentage is a number in [0, 100]
\* equal to 100 * (rows whose rate is None or "") / sample_size when
\* sample_size > 0, and None when sample_size = 0.
C4_NullSampleRatePercentageRange ==
    (Served /\ IsReport) =>
        LET d == response.data
            pct == d.null_sample_rate_percentage
        IN  IF d.sample_size > 0
            THEN /\ pct.kind = "float"
                 /\ pct.den > 0
                 /\ 0 <= pct.num /\ pct.num <= 100 * pct.den
                 /\ pct.num * d.sample_size
                        = 100 * Cardinality(NullRows(root_transactions)) * pct.den
            ELSE pct = None

C4_Witness ==
    /\ Served /\ IsReport
    /\ response.data.sample_size = 3
    /\ Cardinality(NullRows(root_transactions)) = 1
    /\ response.data.null_sample_rate_percentage.num * 3
           = 100 * response.data.null_sample_rate_percentage.den

\* C5: for every sample that mixes rows with a None or "" rate and rows with a
\* numeric rate, get completes with a report (the eligibility error aside)
\* whose sample_size is the number of rows, whose null_sample_rate_percentage
\* counts the None and "" rows, and whose min and max are the smallest and
\* largest numeric rates.
C5_MixedSampleCompletes ==
    (/\ Served
     /\ NullRows(root_transactions) # {}
     /\ NumericRows(root_transactions) # {}
     /\ ~IsEligibilityError) =>
        /\ IsReport
        /\ response.data.sample_size = Len(root_transactions)
        /\ response.data.null_sample_rate_percentage.num * Len(root_transactions)
               = 100 * Cardinality(NullRows(root_transactions))
                     * response.data.null_sample_rate_percentage.den
        /\ \A i \in NumericRows(root_transactions) :
               /\ response.data.sample_rate_distributions.min.val
                      <= RateNumber(root_transactions[i].rate)
               /\ response.data.sample_rate_distributions.max.val
                      >= RateNumber(root_transactions[i].rate)

\* C9, as first stated: _get_sample_rates_data gives the same summary for
\* every order of its values, so the summary of the numeric rates in the
\* order of the rows is the summary reported.
C9_SummarizerSortsItself ==
    (Served /\ IsReport /\ root_transactions # <<>>) =>
        \A q \in PermutationsOf(Vals(NonNullFloats(ClientSampleRates(root_transactions)))) :
            _get_sample_rates_data(q) = response.data.sample_rate_distributions

\* C9, amended: get sorts the numeric rates before it hands them to
\* _get_sample_rates_data, so the summary reported is the same for every
\* order of the rows of the sample.
C9_ReportIndependentOfRowOrder ==
    (Served /\ IsReport /\ root_transactions # <<>>) =>
        \A q \in PermutationsOf(root_transactions) :
            LET rates == sorted(ClientSampleRates(q))
            IN  /\ rates.kind = "list"
                /\ _get_sample_rates_data(NonNullSampleRates(rates.items))
                       = response.data.sample_rate_distributions

C9_Witness ==
    /\ Served /\ IsReport
    /\ Len(root_transactions) = 2
    /\ root_transactions[1].rate = Str("0.5")
    /\ root_transactions[2].rate = Str("1e-05")
    /\ response.data.sample_rate_distributions.p50 = Float(50000)
    /\ response.data.sample_rate_distributions.min = Float(1)

\* C10: after the feature check passes, discover.query is called at most
\* twice; the sample query is the first call; the breakdown query is made,
\* once and second, exactly when distributed-trace mode is on and the sample
\* is not empty, and it names the traces of the rows of the sample.
C10_QueriesIssued ==
    /\ Len(queries) <= 2
    /\ Len(queries) >= 1 => (feature_enabled /\ queries[1] = SampleQuery)
    /\ Len(queries) = 2 =>
           /\ queries[2] = BreakdownQuery(TraceIdList(root_transactions))
           /\ distributed_trace
           /\ root_transactions # <<>>
    /\ Served =>
           (Len(queries) = 2 <=> (distributed_trace /\ root_transactions # <<>>))

----------------------------------------------------------------------------
(* Properties of the pure functions, under FnSpec *)

Elements(s) == {s[i] : i \in 1..Len(s)}

\* the least whole number not below n * p / 100
CeilOfProduct(n, p) == CHOOSE k \in 0..n : 100 * k >= n * p /\ 100 * (k - 1) < n * p

\* C6: for a non-empty sorted list and p in {0.5, 0.9, 0.95, 0.99},
\* percentile_fn returns the element at 0-based position len * p when that is
\* whole and at ceil(len * p) - 1 otherwise, a position within 0..len-1; for
\* the empty list it returns None for any p.
C6_PercentileRule ==
    (pc = "percentile_fn") =>
        IF data = <<>> THEN result = None
        ELSE percentile \in SummaryPercentiles =>
                 LET n == Len(data)
                     c == CeilOfProduct(n, percentile)
                     pos == IF 100 * c = n * percentile THEN c ELSE c - 1
                 IN  /\ pos \in 0..(n - 1)
                     /\ result = Float(data[pos + 1])

C6_Witness ==
    /\ pc = "percentile_fn"
    /\ data = <<10, 20, 30, 40>>
    /\ percentile = 50
    /\ result = Float(30)

\* C7, as first stated: on [10, 20, 30, 40] percentile_fn returns 10 for
\* p = 0.25 and 40 for p = 0.9.
C7_ReferenceTable ==
    (pc = "percentile_fn" /\ data = <<10, 20, 30, 40>>) =>
        /\ percentile = 25 => result = Float(10)
        /\ percentile = 90 => result = Float(40)

\* C7, amended: on [10, 20, 30, 40] percentile_fn returns 20 for p = 0.25
\* (len * p = 1 is whole, so it reads 0-based position 1) and 40 for p = 0.9.
C7_ReferenceTableAmended ==
    (pc = "percentile_fn" /\ data = <<10, 20, 30, 40>>) =>
        /\ percentile = 25 => result = Float(20)
        /\ percentile = 90 => result = Float(40)

C7_Witness ==
    /\ pc = "percentile_fn"
    /\ data = <<10, 20, 30, 40>>
    /\ percentile = 25
    /\ result = Float(20)

\* C8: for every non-empty list of numbers the summary has
\* min <= p50 <= max, and each of p50, p90, p95, p99 is an element of the list
\* between min and max.
C8_PercentilesBetweenMinAndMax ==
    (pc = "_get_sample_rates_data" /\ data # <<>>) =>
        /\ result.kind = "dict"
        /\ result.min.kind = "float" /\ result.max.kind = "float"
        /\ result.min.val <= result.p50.val
        /\ result.p50.val <= result.max.val
        /\ \A r \in {result.p50, result.p90, result.p95, result.p99} :
               /\ r.kind = "float"
               /\ r.val \in Elements(data)
               /\ result.min.val <= r.val
               /\ r.val <= result.max.val

C8_Witness ==
    /\ pc = "_get_sample_rates_data"
    /\ data = <<30, 10, 20>>
    /\ result.kind = "dict"
    /\ result.min = Float(10)
    /\ result.p50 = Float(10)
    /\ result.p99 = Float(20)
    /\ result.max = Float(30)

====
